---- MODULE Spec2Model ----
(***************************************************************************)
(* Model of assets/js/url-router.js: environment detection, the URL        *)
(* cleaner, the link fixer, the active-link highlighter and the            *)
(* initialisation that wires them to DOMContentLoaded and to a             *)
(* MutationObserver.  JavaScript strings are TLA+ strings; the string      *)
(* methods the script uses are defined below character by character.       *)
(***************************************************************************)
EXTENDS Integers, Sequences, FiniteSets, TLC

(***************************************************************************)
(* Bounds of the model.                                                    *)
(***************************************************************************)
\* number of anchor elements the page can hold
NumAnchors == 2
\* number of childList mutations of the body the page performs
MaxMutations == 2

AnchorIds == 1..NumAnchors

(***************************************************************************)
(* JavaScript string methods.                                              *)
(***************************************************************************)
Max(a, b) == IF a > b THEN a ELSE b

CharAt(s, i) == SubSeq(s, i, i)

\* String.prototype.startsWith
StartsWith(s, p) == Len(p) <= Len(s) /\ SubSeq(s, 1, Len(p)) = p

\* String.prototype.endsWith
EndsWith(s, p) == Len(p) <= Len(s) /\ SubSeq(s, Len(s) - Len(p) + 1, Len(s)) = p

\* String.prototype.includes
Includes(s, p) == \E i \in 0..(Len(s) - Len(p)) : SubSeq(s, i + 1, i + Len(p)) = p

\* s.slice(0, -n)
DropLast(s, n) == SubSeq(s, 1, Max(0, Len(s) - n))

\* s.slice(n)
DropFirst(s, n) == SubSeq(s, n + 1, Len(s))

UpperChars == "ABCDEFGHIJKLMNOPQRSTUVWXYZ"
LowerChars == "abcdefghijklmnopqrstuvwxyz"

LowerChar(c) ==
    IF \E i \in 1..Len(UpperChars) : CharAt(UpperChars, i) = c
    THEN CharAt(LowerChars, CHOOSE i \in 1..Len(UpperChars) : CharAt(UpperChars, i) = c)
    ELSE c

\* String.prototype.toLowerCase
RECURSIVE toLowerCase(_)
toLowerCase(s) ==
    IF Len(s) = 0 THEN "" ELSE LowerChar(CharAt(s, 1)) \o toLowerCase(DropFirst(s, 1))

\* s.split('/')
RECURSIVE SplitFrom(_, _, _, _)
SplitFrom(s, i, cur, acc) ==
    IF i > Len(s) THEN Append(acc, cur)
    ELSE IF CharAt(s, i) = "/" THEN SplitFrom(s, i + 1, "", Append(acc, cur))
    ELSE SplitFrom(s, i + 1, cur \o CharAt(s, i), acc)

Split(s) == SplitFrom(s, 1, "", <<>>)

(***************************************************************************)
(* Attribute values: <<>> is an absent attribute (getAttribute gives       *)
(* null), <<v>> an attribute whose value is v.                             *)
(***************************************************************************)
None == <<>>
Some(v) == <<v>>

(***************************************************************************)
(* State.                                                                  *)
(***************************************************************************)
VARIABLES
    hostname,      \* window.location.hostname
    pathname,      \* window.location.pathname
    search,        \* window.location.search
    hash,          \* window.location.hash
    head,          \* the meta elements of document.head, in order
    dom,           \* the anchor elements: dom[a] is a record
    authored,      \* authored[a]: the href the page's markup gave anchor a
    readyState,    \* document.readyState
    dclFired,      \* DOMContentLoaded has been dispatched
    dclListeners,  \* listeners registered on document for DOMContentLoaded
    observing,     \* the MutationObserver of init observes document.body
    pending,       \* mutation records are queued for the observer
    mutations,     \* number of childList mutations of the body since init
    pc,            \* "idle": script not run; "waiting": init deferred; "started"
    context,       \* the context init computed and logged (None before init)
    cleanResults,  \* return values of the calls of UrlCleaner.cleanCurrentUrl
    navs,          \* navigations issued, in order
    log,           \* the components run so far, in order
    unloaded       \* the page has been left; its script runs no more

vars == <<hostname, pathname, search, hash, head, dom, authored, readyState,
          dclFired, dclListeners, observing, pending, mutations, pc, context,
          cleanResults, navs, log, unloaded>>

location == <<hostname, pathname, search, hash>>

(***************************************************************************)
(* 1. Environment.                                                         *)
(***************************************************************************)
\* document.querySelector('meta[name="..."]')
HasMeta(name) == \E i \in 1..Len(head) : head[i].name = name

\* possiblePaths with the folders listed without their trailing slash
possiblePaths_NoTrailingSlash == <<"/Meatlovers", "/meatlovers">>

\* the list of known local folders
possiblePaths == <<"/Meatlovers/", "/meatlovers/">>

\* AutoDetect taking the segment after the first one
AutoDetect_SecondSegment(path) ==
    LET parts == Split(path)
    IN  IF Len(parts) > 3 /\ parts[3] # "" THEN Some("/" \o parts[3] \o "/") ELSE None

\* AutoDetect asking for more than three parts
AutoDetect_MoreThanThree(path) ==
    LET parts == Split(path)
    IN  IF Len(parts) > 3 /\ parts[2] # "" THEN Some("/" \o parts[2] \o "/") ELSE None

\* the "auto-detect" rule shared by the GitHub Pages and the local case
AutoDetect(path) ==
    LET parts == Split(path)
    IN  IF Len(parts) > 2 /\ parts[2] # "" THEN Some("/" \o parts[2] \o "/") ELSE None

\* getBasePath matching the local folders without their trailing slash
getBasePath_LoosePrefix ==
    LET path == pathname
        matching == {i \in 1..Len(possiblePaths) :
                        StartsWith(path, DropLast(possiblePaths[i], 1))}
        first == CHOOSE i \in matching : \A j \in matching : i <= j
    IN  IF Includes(hostname, "vercel.app") \/ HasMeta("vercel") THEN "/"
        ELSE IF Includes(hostname, "netlify.app") \/ HasMeta("netlify") THEN "/"
        ELSE IF Includes(hostname, "github.io")
             THEN IF AutoDetect(path) # None THEN AutoDetect(path)[1] ELSE "/"
        ELSE IF (hostname = "localhost" \/ hostname = "127.0.0.1") /\ matching # {}
             THEN possiblePaths[first]
        ELSE IF (hostname = "localhost" \/ hostname = "127.0.0.1") /\ AutoDetect(path) # None
             THEN AutoDetect(path)[1]
        ELSE "/"

getBasePath ==
    LET path == pathname
        matching == {i \in 1..Len(possiblePaths) : StartsWith(path, possiblePaths[i])}
        first == CHOOSE i \in matching : \A j \in matching : i <= j
    IN  IF Includes(hostname, "vercel.app") \/ HasMeta("vercel") THEN "/"
        ELSE IF Includes(hostname, "netlify.app") \/ HasMeta("netlify") THEN "/"
        ELSE IF Includes(hostname, "github.io")
             THEN IF AutoDetect(path) # None THEN AutoDetect(path)[1] ELSE "/"
        ELSE IF (hostname = "localhost" \/ hostname = "127.0.0.1") /\ matching # {}
             THEN possiblePaths[first]
        ELSE IF (hostname = "localhost" \/ hostname = "127.0.0.1") /\ AutoDetect(path) # None
             THEN AutoDetect(path)[1]
        ELSE IF \/ hostname = "meatlovers.co.ke"
                \/ hostname = "www.meatlovers.co.ke"
                \/ ~Includes(hostname, "localhost")
             THEN "/"
        ELSE "/"

\* getPlatform without the test for netlify.app
getPlatform_NoNetlify ==
    LET host == hostname
    IN  IF Includes(host, "vercel.app") THEN "Vercel"
        ELSE IF Includes(host, "github.io") THEN "GitHub Pages"
        ELSE IF host = "localhost" \/ host = "127.0.0.1" THEN "Local"
        ELSE IF host = "meatlovers.co.ke" \/ host = "www.meatlovers.co.ke" THEN "Production"
        ELSE "Unknown"

getPlatform ==
    LET host == hostname
    IN  IF Includes(host, "vercel.app") THEN "Vercel"
        ELSE IF Includes(host, "netlify.app") THEN "Netlify"
        ELSE IF Includes(host, "github.io") THEN "GitHub Pages"
        ELSE IF host = "localhost" \/ host = "127.0.0.1" THEN "Local"
        ELSE IF host = "meatlovers.co.ke" \/ host = "www.meatlovers.co.ke" THEN "Production"
        ELSE "Unknown"

getContext ==
    [basePath |-> getBasePath,
     platform |-> getPlatform,
     hostname |-> hostname,
     fullPath |-> pathname,
     isLocal  |-> getPlatform = "Local"]

(***************************************************************************)
(* 2. UrlCleaner.  The result is the value returned and the URL handed to  *)
(* window.location.replace, if any.                                        *)
(***************************************************************************)
\* cleanCurrentUrl without toLowerCase
cleanCurrentUrl_CaseSensitive ==
    LET path == pathname
        platform == getPlatform
        cleanPath == DropLast(path, 5)
        newUrl == cleanPath \o search \o hash
    IN  IF platform = "Vercel" \/ platform = "Netlify"
        THEN [ret |-> FALSE, replace |-> None]
        ELSE IF EndsWith(path, ".html") /\ newUrl # pathname
        THEN [ret |-> TRUE, replace |-> Some(newUrl)]
        ELSE [ret |-> FALSE, replace |-> None]

cleanCurrentUrl ==
    LET path == pathname
        platform == getPlatform
        cleanPath == DropLast(path, 5)
        newUrl == cleanPath \o search \o hash
    IN  IF platform = "Vercel" \/ platform = "Netlify"
        THEN [ret |-> FALSE, replace |-> None]
        ELSE IF EndsWith(toLowerCase(path), ".html") /\ newUrl # pathname
        THEN [ret |-> TRUE, replace |-> Some(newUrl)]
        ELSE [ret |-> FALSE, replace |-> None]

(***************************************************************************)
(* 3. LinkFixer.  A link is a record                                       *)
(*   inDoc     the element is in the document (under document.body)        *)
(*   nav       it is matched by 'nav a, .nav-menu a, .footer-col a'        *)
(*   href      attribute href                                              *)
(*   orig      attribute data-original-href                                *)
(*   listeners its click listeners, in the order of registration           *)
(*   active    its class list contains 'active'                            *)
(***************************************************************************)
NoLink ==
    [inDoc |-> FALSE, nav |-> FALSE, href |-> None, orig |-> None,
     listeners |-> <<>>, active |-> FALSE]

NewLink(h, n, act) ==
    [inDoc |-> TRUE, nav |-> n, href |-> h, orig |-> None,
     listeners |-> <<>>, active |-> act]

\* IsSkipped without the test for "tel:"
IsSkipped_NoTel(href) ==
    \/ href = None
    \/ href[1] = ""
    \/ StartsWith(href[1], "http")
    \/ StartsWith(href[1], "//")
    \/ StartsWith(href[1], "#")
    \/ StartsWith(href[1], "mailto:")
    \/ StartsWith(href[1], "javascript:")

\* the "skip external links" test on the value of getAttribute('href')
IsSkipped(href) ==
    \/ href = None
    \/ href[1] = ""
    \/ StartsWith(href[1], "http")
    \/ StartsWith(href[1], "//")
    \/ StartsWith(href[1], "#")
    \/ StartsWith(href[1], "mailto:")
    \/ StartsWith(href[1], "tel:")
    \/ StartsWith(href[1], "javascript:")

\* FixedHref prefixing the base path without fixedHref.slice(1)
FixedHref_KeepSlash(h, ctx) ==
    LET stripped == IF EndsWith(h, ".html") THEN DropLast(h, 5) ELSE h
    IN  IF StartsWith(stripped, "/") /\ ctx.platform = "Local" /\ ctx.basePath # "/"
        THEN ctx.basePath \o stripped
        ELSE stripped

\* the value written back to href for the value h read from it
FixedHref(h, ctx) ==
    LET stripped == IF EndsWith(h, ".html") THEN DropLast(h, 5) ELSE h
    IN  IF StartsWith(stripped, "/") /\ ctx.platform = "Local" /\ ctx.basePath # "/"
        THEN ctx.basePath \o DropFirst(stripped, 1)
        ELSE stripped

\* EventTarget.removeEventListener / addEventListener for one listener
RemoveListener(ls, f) == SelectSeq(ls, LAMBDA g : g # f)
AddListener(ls, f) == IF \E i \in 1..Len(ls) : ls[i] = f THEN ls ELSE Append(ls, f)

\* FixLink registering a new function object on each pass (as a bound or
\* inline handler would be): removeEventListener matches nothing
FixLink_FreshHandler(link, ctx) ==
    IF IsSkipped(link.href) THEN link
    ELSE [link EXCEPT
            !.orig = Some(link.href[1]),
            !.href = Some(FixedHref(link.href[1], ctx)),
            !.listeners =
                IF ctx.platform # "Vercel" /\ ctx.platform # "Netlify"
                THEN Append(@, "handleClick")
                ELSE @]

\* the body of the forEach callback of fixAllLinks
FixLink(link, ctx) ==
    IF IsSkipped(link.href) THEN link
    ELSE [link EXCEPT
            !.orig = Some(link.href[1]),
            !.href = Some(FixedHref(link.href[1], ctx)),
            !.listeners =
                IF ctx.platform # "Vercel" /\ ctx.platform # "Netlify"
                THEN AddListener(RemoveListener(@, "handleClick"), "handleClick")
                ELSE @]

fixAllLinks(d) ==
    [a \in AnchorIds |-> IF d[a].inDoc THEN FixLink(d[a], getContext) ELSE d[a]]

(***************************************************************************)
(* 4. PlatformOptimizer: appends <meta name="platform"> to document.head.  *)
(***************************************************************************)
PlatformOptimizerInit(h) == Append(h, [name |-> "platform", content |-> getPlatform])

(***************************************************************************)
(* 5. ActiveLink.                                                          *)
(***************************************************************************)
\* the body of the forEach callback of highlight
HighlightLink(link, ctx) ==
    LET currentPath == pathname
        href == link.href
    IN  IF href = None \/ href[1] = "" \/ href[1] = "#" THEN link
        ELSE IF /\ (href[1] = "/" \/ href[1] = ctx.basePath)
                /\ \/ currentPath = ctx.basePath
                   \/ currentPath = DropLast(ctx.basePath, 1)
        THEN [link EXCEPT !.active = TRUE]
        ELSE IF /\ href[1] # "/"
                /\ href[1] # ctx.basePath
                /\ Includes(currentPath, href[1])
                /\ Len(href[1]) > 1
        THEN [link EXCEPT !.active = TRUE]
        ELSE [link EXCEPT !.active = FALSE]

highlight(d) ==
    [a \in AnchorIds |->
        IF d[a].inDoc /\ d[a].nav THEN HighlightLink(d[a], getContext) ELSE d[a]]

(***************************************************************************)
(* 6. Initialisation.  The handlers run to completion (one task of the     *)
(* event loop each), so each is a function of the page: the record of the  *)
(* variables a handler can write.  The location does not change while the  *)
(* page lives, and the meta element PlatformOptimizer appends is named     *)
(* "platform", which no query of the Environment selects.                  *)
(***************************************************************************)
Page ==
    [dom |-> dom, head |-> head, dclListeners |-> dclListeners,
     observing |-> observing, context |-> context,
     cleanResults |-> cleanResults, navs |-> navs, log |-> log]

Commit(p) ==
    /\ dom' = p.dom
    /\ head' = p.head
    /\ dclListeners' = p.dclListeners
    /\ observing' = p.observing
    /\ context' = p.context
    /\ cleanResults' = p.cleanResults
    /\ navs' = p.navs
    /\ log' = p.log

\* function init()
init(p) ==
    LET c == cleanCurrentUrl
    IN  [p EXCEPT
            !.context = Some(getContext),
            !.cleanResults = Append(@, c.ret),
            !.navs = IF c.replace # None
                     THEN Append(@, [kind |-> "replace", url |-> c.replace[1]])
                     ELSE @,
            !.head = PlatformOptimizerInit(@),
            !.dom = highlight(fixAllLinks(@)),
            !.log = @ \o <<"cleanCurrentUrl", "PlatformOptimizer", "fixAllLinks", "highlight">>,
            !.dclListeners = Append(@, "rerun"),
            !.observing = TRUE]

\* rerun without the call of LinkFixer.fixAllLinks
rerun_HighlightOnly(p) ==
    [p EXCEPT
        !.dom = highlight(@),
        !.log = @ \o <<"fixAllLinks", "highlight">>]

\* the arrow function init registers for DOMContentLoaded and hands to the
\* MutationObserver
rerun(p) ==
    [p EXCEPT
        !.dom = highlight(fixAllLinks(@)),
        !.log = @ \o <<"fixAllLinks", "highlight">>]

\* Call with init registered as the callback of the re-runs as well
Call_AlwaysInit(f, p) == init(p)

Call(f, p) == IF f = "init" THEN init(p) ELSE rerun(p)

\* dispatch of an event to the listeners registered when the dispatch began
RECURSIVE Dispatch(_, _)
Dispatch(ls, p) == IF ls = <<>> THEN p ELSE Dispatch(Tail(ls), Call(Head(ls), p))

(***************************************************************************)
(* Inputs.                                                                 *)
(***************************************************************************)
Hostnames ==
    {"localhost", "127.0.0.1", "my-site.vercel.app", "my-site.netlify.app",
     "alice.github.io", "meatlovers.co.ke", "www.meatlovers.co.ke",
     "example.com", "localhost.dev"}

Pathnames ==
    {"/", "/menu", "/menu.html", "/MENU.HTML", "/.html", "/repo", "/repo/", "/repo/menu.html",
     "//repo/menu",
     "/alice.github.io/repo/menu.html", "/Meatlovers/menu.html", "/Meatlovers/menu",
     "/Meatlovers/", "/Meatlovers", "/meatlovers/about"}

Searches == {"", "?q=1"}
Hashes == {"", "#top"}

Meta(n) == [name |-> n, content |-> ""]
Heads == {<<>>, <<Meta("vercel")>>, <<Meta("netlify")>>, <<Meta("netlify"), Meta("vercel")>>}

\* authored href attributes
Hrefs ==
    {None, Some(""), Some("/"), Some("/menu"), Some("/menu.html"), Some("about.html"),
     Some("/a.html.html"), Some("http://example.com/a.html"), Some("//cdn.example.com/a.html"),
     Some("#top"), Some("mailto:info@meatlovers.co.ke"), Some("tel:+254700000000"),
     Some("javascript:void(0)")}

\* href attributes of the anchors page scripts insert
AddedHrefs == {Some("/menu.html"), Some("#top")}

\* the hosts and paths of the document-level specification
PageHostnames == {"localhost", "my-site.vercel.app", "alice.github.io", "meatlovers.co.ke"}
PagePathnames == {"/", "/menu", "/Meatlovers/", "/Meatlovers/menu", "/Meatlovers/menu.html"}

InitWith(hosts, paths, searches, hashes, heads, hrefs) ==
    /\ hostname \in hosts
    /\ pathname \in paths
    /\ search \in searches
    /\ hash \in hashes
    /\ head \in heads
    /\ \E h \in hrefs, n \in BOOLEAN, act \in BOOLEAN :
          /\ (act => n)
          /\ dom = [a \in AnchorIds |-> IF a = 1 THEN NewLink(h, n, act) ELSE NoLink]
          /\ authored = [a \in AnchorIds |-> IF a = 1 THEN h ELSE None]
    /\ readyState = "loading"
    /\ dclFired = FALSE
    /\ dclListeners = <<>>
    /\ observing = FALSE
    /\ pending = FALSE
    /\ mutations = 0
    /\ pc = "idle"
    /\ context = None
    /\ cleanResults = <<>>
    /\ navs = <<>>
    /\ log = <<>>
    /\ unloaded = FALSE

Init == InitWith(PageHostnames, PagePathnames, {""}, {""}, {<<>>}, Hrefs)

InitEnv == InitWith(Hostnames, Pathnames, Searches, Hashes, Heads, {Some("/menu.html"), Some("/")})

(***************************************************************************)
(* Actions.                                                                *)
(***************************************************************************)
\* ScriptStart calling init without looking at document.readyState
ScriptStart_NoDefer ==
    /\ ~unloaded
    /\ pc = "idle"
    /\ pc' = "started"
    /\ Commit(init(Page))
    /\ UNCHANGED <<location, authored, readyState, dclFired, pending, mutations, unloaded>>

\* the script's last statement: run init now, or defer it to DOMContentLoaded
ScriptStart ==
    /\ ~unloaded
    /\ pc = "idle"
    /\ IF readyState = "loading"
       THEN /\ pc' = "waiting"
            /\ dclListeners' = Append(dclListeners, "init")
            /\ UNCHANGED <<dom, head, observing, context, cleanResults, navs, log>>
       ELSE /\ pc' = "started"
            /\ Commit(init(Page))
    /\ UNCHANGED <<location, authored, readyState, dclFired, pending, mutations, unloaded>>

\* the parser has finished: document.readyState leaves "loading"
ParsingDone ==
    /\ ~unloaded
    /\ readyState = "loading"
    /\ readyState' = "interactive"
    /\ UNCHANGED <<location, head, dom, authored, dclFired, dclListeners, observing,
                   pending, mutations, pc, context, cleanResults, navs, log, unloaded>>

\* the browser dispatches DOMContentLoaded, once
DOMContentLoaded ==
    /\ ~unloaded
    /\ readyState = "interactive"
    /\ ~dclFired
    /\ dclFired' = TRUE
    /\ Commit(Dispatch(dclListeners, Page))
    /\ pc' = IF pc = "waiting" THEN "started" ELSE pc
    /\ UNCHANGED <<location, authored, readyState, pending, mutations, unloaded>>

\* after init, a page script inserts a new anchor under document.body (a names
\* the element: the first name not in use); the document as it is when init
\* runs is the initial state
AddAnchor(a, h, n) ==
    /\ ~unloaded
    /\ pc = "started"
    /\ mutations < MaxMutations
    /\ ~dom[a].inDoc
    /\ \A b \in AnchorIds : b < a => dom[b].inDoc
    /\ dom' = [dom EXCEPT ![a] = NewLink(h, n, FALSE)]
    /\ authored' = [authored EXCEPT ![a] = h]
    /\ mutations' = mutations + 1
    /\ pending' = (pending \/ observing)
    /\ UNCHANGED <<location, head, readyState, dclFired, dclListeners, observing, pc,
                   context, cleanResults, navs, log, unloaded>>

\* after init, a page script removes an anchor from the document
RemoveAnchor(a) ==
    /\ ~unloaded
    /\ pc = "started"
    /\ mutations < MaxMutations
    /\ dom[a].inDoc
    /\ dom' = [dom EXCEPT ![a] = NoLink]
    /\ authored' = [authored EXCEPT ![a] = None]
    /\ mutations' = mutations + 1
    /\ pending' = (pending \/ observing)
    /\ UNCHANGED <<location, head, readyState, dclFired, dclListeners, observing, pc,
                   context, cleanResults, navs, log, unloaded>>

\* ObserverCallback of an observer that also watches attributes: the writes of
\* its own pass queue new records
ObserverCallback_AttributesObserved ==
    /\ ~unloaded
    /\ observing
    /\ pending
    /\ Commit(rerun(Page))
    /\ pending' = (dom' # dom)
    /\ UNCHANGED <<location, authored, readyState, dclFired, mutations, pc, unloaded>>

\* the MutationObserver's callback, delivered the queued records
ObserverCallback ==
    /\ ~unloaded
    /\ observing
    /\ pending
    /\ pending' = FALSE
    /\ Commit(rerun(Page))
    /\ UNCHANGED <<location, authored, readyState, dclFired, mutations, pc, unloaded>>

\* a navigation issued earlier takes effect: the page is left.  Mutation
\* records are delivered in a microtask at the end of the task that changed
\* the document, before any other task, so none is queued at that point.
Unload ==
    /\ ~unloaded
    /\ navs # <<>>
    /\ ~pending
    /\ unloaded' = TRUE
    /\ UNCHANGED <<location, head, dom, authored, readyState, dclFired, dclListeners,
                   observing, pending, mutations, pc, context, cleanResults, navs, log>>

Next ==
    \/ ScriptStart
    \/ ParsingDone
    \/ DOMContentLoaded
    \/ \E a \in AnchorIds, h \in AddedHrefs, n \in BOOLEAN : AddAnchor(a, h, n)
    \/ \E a \in AnchorIds : RemoveAnchor(a)
    \/ ObserverCallback
    \/ Unload

Spec == Init /\ [][Next]_vars

\* the script on its own: no page script changes the document
NextEnv ==
    \/ ScriptStart
    \/ ParsingDone
    \/ DOMContentLoaded
    \/ Unload

SpecEnv == InitEnv /\ [][NextEnv]_vars

\* the delivery of the queued records: the steps of Next that empty the queue
\* are those of ObserverCallback, which is enabled whenever records are queued
\* for a live observer
Delivery == ~unloaded /\ observing /\ pending /\ pending' = FALSE

\* the browser delivers queued mutation records to the observer
SpecLive == Spec /\ WF_pending(Delivery)

(***************************************************************************)
(* Properties.                                                             *)
(***************************************************************************)
\* a step in which fixAllLinks and then highlight ran over the document
PassStep == log' # log

\* init has run
Initialised == context # None

\* C1: a Link Rewriter pass over an anchor that an earlier pass has already
\* rewritten leaves its href as the earlier pass left it (the rewrite is
\* idempotent on every platform and base path).
C1_Idempotent ==
    [][\A a \in AnchorIds :
          (PassStep /\ dom[a].inDoc /\ dom[a].orig # None)
              => dom'[a].href = dom[a].href]_vars

\* C2: data-original-href, once written, holds the href the anchor had before
\* its first rewrite, whatever the number of later passes.
C2_OriginalKept ==
    \A a \in AnchorIds :
        (dom[a].inDoc /\ dom[a].orig # None) => dom[a].orig = authored[a]

\* C3: on a hostname containing "vercel.app" or "netlify.app" the base path is
\* "/", for every path and every set of meta markers, and the URL cleaner
\* issues no navigation and returns false.
C3_NativeHostsUntouched ==
    (Includes(hostname, "vercel.app") \/ Includes(hostname, "netlify.app"))
        => /\ getBasePath = "/"
           /\ Initialised => context[1].basePath = "/"
           /\ navs = <<>>
           /\ \A i \in 1..Len(cleanResults) : cleanResults[i] = FALSE

C3_Witness ==
    /\ Includes(hostname, "netlify.app")
    /\ pathname = "/repo/menu.html"
    /\ HasMeta("vercel")
    /\ cleanResults = <<FALSE>>
    /\ context = Some(getContext)

\* C4 as stated: on alice.github.io with path /alice.github.io/repo/menu.html
\* and no vercel or netlify marker the base path is "/repo/".
C4_Original ==
    (/\ Initialised
     /\ hostname = "alice.github.io"
     /\ pathname = "/alice.github.io/repo/menu.html"
     /\ ~HasMeta("vercel") /\ ~HasMeta("netlify"))
        => context[1].basePath = "/repo/"

\* C4 amended: on alice.github.io with no vercel or netlify marker the base
\* path is the first segment of the path between slashes: "/alice.github.io/"
\* for the path /alice.github.io/repo/menu.html, "/repo/" for /repo/menu.html.
C4_FirstSegment ==
    (/\ Initialised
     /\ hostname = "alice.github.io"
     /\ ~HasMeta("vercel") /\ ~HasMeta("netlify"))
        => /\ pathname = "/alice.github.io/repo/menu.html"
                => context[1].basePath = "/alice.github.io/"
           /\ pathname = "/repo/menu.html" => context[1].basePath = "/repo/"

C4_Witness ==
    /\ hostname = "alice.github.io"
    /\ pathname = "/alice.github.io/repo/menu.html"
    /\ head = <<[name |-> "platform", content |-> "GitHub Pages"]>>
    /\ Initialised
    /\ context[1].basePath = "/alice.github.io/"

\* C5: one pass over an anchor that is not skipped and whose href is t writes
\* t without one trailing ".html", prefixed with the base path (no doubled
\* slash) exactly when that starts with "/", the platform is Local and the base
\* path is not "/"; on localhost at /Meatlovers/menu.html the base path is
\* "/Meatlovers/" and "/menu" becomes "/Meatlovers/menu".
C5_OnePass ==
    [][\A a \in AnchorIds :
          (PassStep /\ dom[a].inDoc /\ ~IsSkipped(dom[a].href))
              => LET t == dom[a].href[1]
                     r == IF EndsWith(t, ".html") THEN SubSeq(t, 1, Len(t) - 5) ELSE t
                     local == getPlatform = "Local" /\ getBasePath # "/"
                 IN  /\ (StartsWith(r, "/") /\ local)
                            => dom'[a].href = Some(getBasePath \o SubSeq(r, 2, Len(r)))
                     /\ ~(StartsWith(r, "/") /\ local) => dom'[a].href = Some(r)
                     /\ (hostname = "localhost" /\ pathname = "/Meatlovers/menu.html")
                            => /\ getBasePath = "/Meatlovers/"
                               /\ t = "/menu" => dom'[a].href = Some("/Meatlovers/menu")]_vars

C5_Witness ==
    /\ hostname = "localhost"
    /\ pathname = "/Meatlovers/menu.html"
    /\ authored[1] = Some("/menu")
    /\ dom[1].inDoc
    /\ dom[1].href = Some("/Meatlovers/menu")
    /\ Initialised
    /\ context[1].basePath = "/Meatlovers/"

\* C6: where the detected platform is neither Vercel nor Netlify, the URL
\* cleaner called on a path ending in ".html" (in any case) issues exactly one
\* replace navigation, to the path without its last five characters followed by
\* the query string and the fragment, and returns true; on every platform, called
\* on a path not ending in ".html" it issues no navigation and returns false.
C6_Normalizer ==
    Initialised =>
        LET html == EndsWith(toLowerCase(pathname), ".html")
        IN  /\ (html /\ context[1].platform \notin {"Vercel", "Netlify"})
                  => /\ navs = <<[kind |-> "replace",
                                  url |-> SubSeq(pathname, 1, Len(pathname) - 5)
                                              \o search \o hash]>>
                     /\ cleanResults = <<TRUE>>
            /\ ~html => (navs = <<>> /\ cleanResults = <<FALSE>>)

C6_Witness ==
    /\ hostname = "example.com"
    /\ pathname = "/MENU.HTML"
    /\ navs = <<[kind |-> "replace", url |-> "/MENU?q=1#top"]>>
    /\ cleanResults = <<TRUE>>

\* C7: an anchor with no href, or whose href begins with "http", "//", "#",
\* "mailto:", "tel:" or "javascript:", keeps its href, gets no
\* data-original-href and no click listener, after any number of passes on
\* any platform.
C7_SkippedUntouched ==
    \A a \in AnchorIds :
        (/\ dom[a].inDoc
         /\ \/ authored[a] = None
            \/ \E p \in {"http", "//", "#", "mailto:", "tel:", "javascript:"} :
                  authored[a] # None /\ StartsWith(authored[a][1], p))
            => /\ dom[a].href = authored[a]
               /\ dom[a].orig = None
               /\ dom[a].listeners = <<>>

C7_Witness ==
    /\ getPlatform = "Local"
    /\ authored[1] = Some("tel:+254700000000")
    /\ dom[1].inDoc
    /\ dom[1].href = Some("tel:+254700000000")
    /\ Len(log) >= 8

\* C8: after every run of the rewriter and the marker, a navigation link whose
\* authored href is the current page (the current path, or on Local the base
\* path followed by the href without its leading slash) is active, and a
\* navigation link whose authored href is "/" is active only if the current
\* path is the base path.
C8_ActiveMarker ==
    [][PassStep =>
          \A a \in AnchorIds :
              (dom'[a].inDoc /\ dom'[a].nav /\ authored'[a] # None) =>
                  LET t == authored'[a][1]
                  IN  /\ (/\ StartsWith(t, "/") /\ Len(t) > 1 /\ ~EndsWith(t, ".html")
                          /\ \/ pathname = t
                             \/ /\ getPlatform = "Local"
                                /\ pathname = getBasePath \o SubSeq(t, 2, Len(t)))
                             => dom'[a].active
                      /\ (t = "/" /\ dom'[a].active) => pathname = getBasePath]_vars

\* C9: with a meta marker named "vercel" in the head the platform is Vercel,
\* with one named "netlify" (and no earlier rule matching) it is Netlify, and
\* the base path is "/", for every hostname.
C9_MetaMarkerPlatform ==
    Initialised =>
        /\ HasMeta("vercel")
              => (context[1].platform = "Vercel" /\ context[1].basePath = "/")
        /\ (HasMeta("netlify") /\ ~HasMeta("vercel") /\ ~Includes(hostname, "vercel.app"))
              => (context[1].platform = "Netlify" /\ context[1].basePath = "/")

\* C10: a hostname matching none of the Vercel, Netlify, GitHub Pages and Local
\* rules that is the production domain (with or without "www.") or does not
\* contain "localhost" is Production with base path "/"; Unknown is only a
\* hostname containing "localhost" that matches no earlier rule.
C10_NoEarlierRule ==
    /\ ~Includes(hostname, "vercel.app") /\ ~HasMeta("vercel")
    /\ ~Includes(hostname, "netlify.app") /\ ~HasMeta("netlify")
    /\ ~Includes(hostname, "github.io")
    /\ hostname # "localhost" /\ hostname # "127.0.0.1"

C10_ProductionOrUnknown ==
    Initialised =>
        /\ (/\ C10_NoEarlierRule
            /\ \/ hostname \in {"meatlovers.co.ke", "www.meatlovers.co.ke"}
               \/ ~Includes(hostname, "localhost"))
              => (context[1].platform = "Production" /\ context[1].basePath = "/")
        /\ context[1].platform = "Unknown"
              => (Includes(hostname, "localhost") /\ C10_NoEarlierRule)

C12_MutationRerun ==
    /\ [][mutations' # mutations => pending']_vars
    /\ [][(pending /\ ~pending')
            => /\ log' = log \o <<"fixAllLinks", "highlight">>
               /\ \A a \in AnchorIds :
                     (dom[a].inDoc /\ ~IsSkipped(dom[a].href))
                         => /\ dom'[a].orig = dom[a].href
                            /\ dom'[a].href = Some(FixedHref(dom[a].href[1], getContext))]_vars
    /\ pending ~> ~pending

C12_Witness ==
    /\ mutations >= 1
    /\ ~pending
    /\ dom[2].inDoc
    /\ authored[2] = Some("/menu.html")
    /\ dom[2].orig = Some("/menu.html")
    /\ dom[2].href = Some("/menu")

\* C13: over any sequence of events the one-time steps run exactly once, in
\* order, before the first pass: init calls the URL cleaner once (at most one
\* navigation is ever issued) and appends one platform meta element; every
\* later run consists of fixAllLinks and highlight alone.
C13_InitSteps == <<"cleanCurrentUrl", "PlatformOptimizer", "fixAllLinks", "highlight">>

C13_PlatformMetas == {i \in 1..Len(head) : head[i].name = "platform"}

C13_OneTimeSteps ==
    /\ ~Initialised
          => (log = <<>> /\ cleanResults = <<>> /\ navs = <<>> /\ C13_PlatformMetas = {})
    /\ Initialised
          => /\ Len(log) >= 4
             /\ SubSeq(log, 1, 4) = C13_InitSteps
             /\ (Len(log) - 4) % 2 = 0
             /\ \A i \in 5..Len(log) :
                   log[i] = IF i % 2 = 1 THEN "fixAllLinks" ELSE "highlight"
             /\ Len(cleanResults) = 1
             /\ Len(navs) <= 1
             /\ Cardinality(C13_PlatformMetas) = 1

C13_Witness ==
    /\ Len(log) = 10
    /\ navs # <<>>
    /\ dclFired
    /\ mutations = 2

\* the cases C14 is about: a GitHub Pages hostname, or a Local hostname with a
\* path under no listed folder, with no Vercel or Netlify rule matching
C14_AutoDetected ==
    /\ Initialised
    /\ ~Includes(hostname, "vercel.app") /\ ~HasMeta("vercel")
    /\ ~Includes(hostname, "netlify.app") /\ ~HasMeta("netlify")
    /\ \/ Includes(hostname, "github.io")
       \/ /\ hostname \in {"localhost", "127.0.0.1"}
          /\ ~StartsWith(pathname, "/Meatlovers/")
          /\ ~StartsWith(pathname, "/meatlovers/")

\* the non-empty segments of the current path
C14_Segments == SelectSeq(Split(pathname), LAMBDA x : x # "")

\* C14 as stated: in these cases the base path is "/" + the first non-empty
\* segment + "/" if and only if the path has more than one segment, and "/"
\* otherwise ("/repo" and "/repo/" both give "/").
C14_Original ==
    C14_AutoDetected
        => context[1].basePath =
              IF Len(C14_Segments) > 1 THEN "/" \o C14_Segments[1] \o "/" ELSE "/"

\* the positions of a second slash of the current path that ends a non-empty
\* first segment
C14_SecondSlash ==
    {k \in 3..Len(pathname) :
        /\ CharAt(pathname, k) = "/"
        /\ \A j \in 2..(k - 1) : CharAt(pathname, j) # "/"}

\* C14 amended: in these cases the base path is the path up to and including
\* its second slash when a non-empty first segment is followed by a slash, and
\* "/" otherwise: "/repo" gives "/", "/repo/" gives "/repo/".
C14_UpToSecondSlash ==
    C14_AutoDetected
        => /\ C14_SecondSlash # {}
                => \A k \in C14_SecondSlash : context[1].basePath = SubSeq(pathname, 1, k)
           /\ C14_SecondSlash = {} => context[1].basePath = "/"
           /\ pathname = "/repo" => context[1].basePath = "/"
           /\ pathname = "/repo/" => context[1].basePath = "/repo/"

C14_Witness ==
    /\ Initialised
    /\ hostname = "127.0.0.1"
    /\ pathname = "/repo/"
    /\ ~HasMeta("vercel") /\ ~HasMeta("netlify")
    /\ context[1].basePath = "/repo/"

\* the step in which the script executes, and the dispatch of DOMContentLoaded
C15_ScriptStep == pc = "idle" /\ pc' # "idle"
C15_MilestoneStep == ~dclFired /\ dclFired'

\* C15 as stated: a script that executes before DOMContentLoaded runs
\* fixAllLinks and highlight at script load and exactly once more when
\* DOMContentLoaded fires; after the event there is no such re-run.
C15_Original ==
    [][/\ (C15_ScriptStep /\ ~dclFired)
             => log' = <<"cleanCurrentUrl", "PlatformOptimizer", "fixAllLinks", "highlight">>
       /\ (C15_MilestoneStep /\ pc # "idle")
             => log' = log \o <<"fixAllLinks", "highlight">>
       /\ (dclFired /\ PassStep) => (pc = "idle" \/ pending)]_vars

\* C15 amended: a script that executes while the document is loading runs
\* nothing at script load; init, with its one pass, runs when DOMContentLoaded
\* fires, and nothing more then.  A script that executes after loading and
\* before the event runs init at script load and one re-run when the event
\* fires.  The event fires once, and after it passes come only from the script
\* start and from the observer.
C15_DeferredInit ==
    [][/\ (C15_ScriptStep /\ readyState = "loading") => (pc' = "waiting" /\ log' = log)
       /\ (C15_ScriptStep /\ readyState # "loading")
             => log' = <<"cleanCurrentUrl", "PlatformOptimizer", "fixAllLinks", "highlight">>
       /\ (C15_MilestoneStep /\ pc = "waiting")
             => log' = <<"cleanCurrentUrl", "PlatformOptimizer", "fixAllLinks", "highlight">>
       /\ (C15_MilestoneStep /\ pc = "started")
             => log' = log \o <<"fixAllLinks", "highlight">>
       /\ (C15_MilestoneStep /\ pc = "idle") => log' = log
       /\ dclFired => dclFired'
       /\ (dclFired /\ PassStep) => (pc = "idle" \/ pending)]_vars

C15_Witness ==
    /\ dclFired
    /\ dclListeners = <<"init", "rerun">>
    /\ pc = "started"
    /\ log = <<"cleanCurrentUrl", "PlatformOptimizer", "fixAllLinks", "highlight">>

\* the number of Link Rewriter passes run so far
C16_Passes == Cardinality({i \in 1..Len(log) : log[i] = "fixAllLinks"})

\* C16: a pass never triggers another pass.  A pass changes no child list and
\* queues no mutation record (the observer's own pass leaves the queue empty);
\* a pass runs only at script start, at DOMContentLoaded or for queued records;
\* so the passes number at most two plus the mutations of the body, and after
\* the last mutation has been delivered the script stays quiescent.
C16_NoSelfTrigger ==
    /\ [](C16_Passes <= 2 + mutations)
    /\ [][PassStep
            => /\ mutations' = mutations
               /\ pc = "idle" \/ ~dclFired \/ pending
               /\ IF pc = "started" /\ dclFired' = dclFired
                  THEN pending /\ ~pending'
                  ELSE pending' = pending]_vars

C16_Witness ==
    /\ C16_Passes = 2 + MaxMutations
    /\ mutations = MaxMutations
    /\ ~pending
    /\ dom[1].inDoc
    /\ authored[1] = Some("/menu")
    /\ getPlatform = "Local"
    /\ getBasePath = "/Meatlovers/"

\* C17: the base path is "/" or a string "/segment/" that is a prefix of the
\* current path, so the current path is never the base path without its
\* trailing slash, and a navigation link to the root (href "/" or the base
\* path) is active after a run exactly when the current path is the base path.
C17_BasePathIsPrefix ==
    LET base == getBasePath
    IN  /\ \/ base = "/"
           \/ /\ Len(base) >= 3
              /\ CharAt(base, 1) = "/"
              /\ CharAt(base, Len(base)) = "/"
              /\ \A i \in 2..(Len(base) - 1) : CharAt(base, i) # "/"
              /\ Len(base) <= Len(pathname)
              /\ SubSeq(pathname, 1, Len(base)) = base
        /\ pathname # SubSeq(base, 1, Len(base) - 1)
        /\ Initialised
              => /\ context[1].basePath = base
                 /\ \A a \in AnchorIds :
                       (/\ dom[a].inDoc /\ dom[a].nav
                        /\ dom[a].href \in {Some("/"), Some(base)})
                           => (dom[a].active <=> pathname = base)

C17_Witness ==
    /\ Initialised
    /\ hostname = "localhost"
    /\ pathname = "/Meatlovers"
    /\ head = <<[name |-> "platform", content |-> "Local"]>>
    /\ context[1].basePath = "/"
    /\ dom[1].nav
    /\ dom[1].href = Some("/")
    /\ ~dom[1].active

\* the base path of a Local hostname computed without the loop over
\* possiblePaths: the Vercel and Netlify rules, then the auto-detect rule
C18_AutoDetectAlone ==
    IF HasMeta("vercel") \/ HasMeta("netlify") THEN "/"
    ELSE IF AutoDetect(pathname) # None THEN AutoDetect(pathname)[1]
    ELSE "/"

\* C18: on a Local hostname the list of known folders never changes the
\* result: for every path the base path is the one the auto-detect rule alone
\* gives.
C18_AllowListRedundant ==
    (Initialised /\ hostname \in {"localhost", "127.0.0.1"})
        => context[1].basePath = C18_AutoDetectAlone

C18_Witness ==
    /\ Initialised
    /\ hostname = "localhost"
    /\ pathname = "/meatlovers/about"
    /\ head = <<[name |-> "platform", content |-> "Local"]>>
    /\ StartsWith(pathname, possiblePaths[2])
    /\ context[1].basePath = "/meatlovers/"

====
